---- MODULE Spec2Model ----
(***************************************************************************)
(* A model of scheduler.py: the Job due-time computation and the          *)
(* Scheduler's selection, ordering and bulk-run operations.                *)
(*                                                                         *)
(* Time is an integer count of clock ticks since midnight of day 0; a      *)
(* datetime is such a count, a timedelta is a difference of two.  One      *)
(* clock value is read per handler step (the bookkeeping of a run and the  *)
(* computation of next_run take no measurable time); time passes between   *)
(* calls of the public operations, while a bound action executes, and      *)
(* while run_all sleeps.                                                   *)
(*                                                                         *)
(* Jobs are objects: heap maps an object identity to the job's fields and  *)
(* the collection and the pass in progress hold identities.                *)
(*                                                                         *)
(* Truth values are those of Python 3.5 and later: every datetime.time,    *)
(* midnight included, is true in `if self.at_time`.                        *)
(*                                                                         *)
(* The thread of run_continuously has a frame of its own (loop) and takes  *)
(* one step per loop test, selection, job.run() and sleep; the calls of    *)
(* another thread fall between these steps.                                *)
(***************************************************************************)
EXTENDS Integers, Sequences, FiniteSets, TLC

(* ------------------------------ bounds -------------------------------- *)

\* resolution of the modelled clock: ticks in one second
TicksPerSecond == 2

\* job objects alive at one time
MaxJobs == 2

\* largest interval passed to every()
MaxInterval == 2

\* the clock of the seconds-scale specification stops at this many ticks
MaxTime == 6

\* the clock of the calendar specification stops after this many days
MaxDays == 8

(* ------------------- datetime / timedelta arithmetic ------------------ *)

SecondsPerMinute == 60

MinutesPerHour == 60

HoursPerDay == 24

DaysPerWeek == 7

TicksPerMinute == SecondsPerMinute * TicksPerSecond

TicksPerHour == MinutesPerHour * TicksPerMinute

TicksPerDay == HoursPerDay * TicksPerHour

TicksPerWeek == DaysPerWeek * TicksPerDay

\* the five units _schedule_next_run accepts
Units == {"seconds", "minutes", "hours", "days", "weeks"}

\* datetime.timedelta(**{unit: interval})
timedelta(unit, interval) ==
    CASE unit = "seconds" -> interval * TicksPerSecond
      [] unit = "minutes" -> interval * TicksPerMinute
      [] unit = "hours"   -> interval * TicksPerHour
      [] unit = "days"    -> interval * TicksPerDay
      [] unit = "weeks"   -> interval * TicksPerWeek

\* the date of a datetime, as a day number
DateOf(t) == t \div TicksPerDay

\* datetime.time(): the time of day of a datetime, in ticks since midnight
TimeOf(t) == t % TicksPerDay

\* a datetime.time value <<hour, minute, second>> in ticks since midnight
TimeTicks(tm) ==
    ((tm[1] * MinutesPerHour + tm[2]) * SecondsPerMinute + tm[3]) * TicksPerSecond

\* a replace() that keeps the fraction of a second of the datetime
replace_keeping_microsecond(t, tm) ==
    DateOf(t) * TicksPerDay + TimeTicks(tm) + (t % TicksPerSecond)

\* datetime.replace(hour=, minute=, second=, microsecond=0): same date
replace(t, tm) == DateOf(t) * TicksPerDay + TimeTicks(tm)

(* ------------------------------- values ------------------------------- *)

\* Python's None for a datetime or timedelta field
None == -1

\* Python's None for the unit and for job_func
NoName == "None"

\* Python's None for at_time
NoTime == <<>>

\* bound actions: one that returns and one that raises on every call
Funcs == {"good", "bad"}

\* Job.__init__
Job(interval) ==
    [interval |-> interval, job_func |-> NoName, unit |-> NoName,
     at_time |-> NoTime, last_run |-> None, next_run |-> None, period |-> None]

\* a heap slot that holds no job object
NoJob == Job(0)

JobIds == 1 .. MaxJobs

Range(s) == {s[i] : i \in DOMAIN s}

(* --------------------------- time strings ----------------------------- *)

Digits == {"0", "1", "2", "3", "4", "5", "6", "7", "8", "9"}

DigitVal(c) ==
    CASE c = "0" -> 0 [] c = "1" -> 1 [] c = "2" -> 2 [] c = "3" -> 3
      [] c = "4" -> 4 [] c = "5" -> 5 [] c = "6" -> 6 [] c = "7" -> 7
      [] c = "8" -> 8 [] c = "9" -> 9

\* str.split(':') of a string given as a sequence of characters
RECURSIVE SplitFrom(_, _, _)
SplitFrom(s, i, cur) ==
    IF i > Len(s) THEN <<cur>>
    ELSE IF s[i] = ":" THEN <<cur>> \o SplitFrom(s, i + 1, <<>>)
    ELSE SplitFrom(s, i + 1, Append(cur, s[i]))

split(s) == SplitFrom(s, 1, <<>>)

\* the value of a run of decimal digits
RECURSIVE DigitsVal(_, _)
DigitsVal(f, acc) ==
    IF f = <<>> THEN acc ELSE DigitsVal(Tail(f), acc * 10 + DigitVal(Head(f)))

\* str.strip(): the field without the blanks around it, as int() reads it
RECURSIVE strip(_)
strip(f) ==
    IF f = <<>> THEN f
    ELSE IF Head(f) = " " THEN strip(Tail(f))
    ELSE IF f[Len(f)] = " " THEN strip(SubSeq(f, 1, Len(f) - 1))
    ELSE f

\* whether int(f) accepts the field: blanks, an optional sign, digits, blanks
\* (digits grouped by underscores are not among the strings tried)
IsInt(f) ==
    LET g    == strip(f)
        body == IF g # <<>> /\ Head(g) \in {"-", "+"} THEN Tail(g) ELSE g
    IN  body # <<>> /\ \A i \in DOMAIN body : body[i] \in Digits

\* int(f)
int(f) ==
    LET g == strip(f)
    IN  IF Head(g) = "-" THEN 0 - DigitsVal(Tail(g), 0)
        ELSE IF Head(g) = "+" THEN DigitsVal(Tail(g), 0)
        ELSE DigitsVal(g, 0)

(* ------------------------------- state -------------------------------- *)

VARIABLES
    now,        \* datetime.datetime.now()
    heap,       \* the fields of each job object
    jobs,       \* Scheduler.jobs: the identities of the collection, in order
    mode,       \* "idle", or the bulk operation in progress
    todo,       \* run_pending: the sorted jobs of the pass not yet run
    idx,        \* run_all: the position of the list iterator
    delay,      \* run_all: its delay_seconds argument, in ticks
    selected,   \* run_pending: the jobs the pass selected, as sorted
    calls,      \* the invocations of bound actions by the latest bulk operation
    op,         \* the latest operation called: its name and its argument (the job
                \* it was called on, run_all's delay; for clear, the jobs it deleted)
    err,        \* the error the latest operation raised to its caller
    result,     \* the value the latest query returned
    left,       \* the jobs the caller's latest run_pending pass had selected and
                \* had not run when it raised, until the pass after it has ended
    cease,      \* run_continuously: whether cease_continuous_run is set
    loop        \* run_continuously: the frame of the ScheduleThread

vars ==
    <<now, heap, jobs, mode, todo, idx, delay, selected, calls, op, err, result,
      left, cease, loop>>

\* the state of the thread that run_continuously starts
thread == <<cease, loop>>

\* no ScheduleThread has been started
NoLoop ==
    [pc |-> "none", interval |-> 0, todo |-> <<>>, selected |-> <<>>,
     calls |-> <<>>, err |-> "none", after |-> 0]

(* --------------------------------- Job -------------------------------- *)

\* the outcome of a method on a job: the job's fields after it and the error
\* it raised ("none": it returned)
Outcome(job, e) == [job |-> job, err |-> e]

\* Job.__lt__
lt(a, b) == a.next_run < b.next_run

\* Job.seconds, minutes, hours, days, weeks
plural(job, unit) == Outcome([job EXCEPT !.unit = unit], "none")

\* a singular form that does not look at the interval
singular_unchecked(job, unit) == plural(job, unit)

\* Job.second, minute, hour, day, week
singular(job, unit) ==
    IF job.interval # 1 THEN Outcome(job, "AssertionError")
    ELSE plural(job, unit)

\* an at() that reads the hour and the minute and ignores what follows them
at_ignoring_rest(job, time_str) ==
    LET fields == split(time_str)
    IN  IF job.unit # "days" THEN Outcome(job, "AssertionError")
        ELSE IF Len(fields) < 2 \/ ~IsInt(fields[1]) \/ ~IsInt(fields[2])
        THEN Outcome(job, "ValueError")
        ELSE LET hour   == int(fields[1])
                 minute == int(fields[2])
             IN  IF ~(0 <= hour /\ hour <= 23) THEN Outcome(job, "AssertionError")
                 ELSE IF ~(0 <= minute /\ minute <= 59)
                 THEN Outcome(job, "AssertionError")
                 ELSE Outcome([job EXCEPT !.at_time = <<hour, minute, 0>>], "none")

\* Job.at
at(job, time_str) ==
    LET fields == split(time_str)
    IN  IF job.unit # "days" THEN Outcome(job, "AssertionError")
        ELSE IF \E i \in DOMAIN fields : ~IsInt(fields[i])
        THEN Outcome(job, "ValueError")
        ELSE IF Len(fields) # 2 THEN Outcome(job, "ValueError")
        ELSE LET hour   == int(fields[1])
                 minute == int(fields[2])
             IN  IF ~(0 <= hour /\ hour <= 23) THEN Outcome(job, "AssertionError")
                 ELSE IF ~(0 <= minute /\ minute <= 59)
                 THEN Outcome(job, "AssertionError")
                 ELSE Outcome([job EXCEPT !.at_time = <<hour, minute, 0>>], "none")

\* a first-schedule test that also holds at the anchor time itself
FirstRunTodayOrNow(job, t) ==
    job.last_run = None /\ TimeTicks(job.at_time) >= TimeOf(t)

\* a first-schedule test that does not look at last_run
FirstRunTodayAgain(job, t) == TimeTicks(job.at_time) > TimeOf(t)

\* the first-schedule test of Job._schedule_next_run
FirstRunToday(job, t) ==
    job.last_run = None /\ TimeTicks(job.at_time) > TimeOf(t)

\* the at_time branch of Job._schedule_next_run
Anchored(job, t) ==
    LET anchored == replace(job.next_run, job.at_time)
    IN  IF FirstRunToday(job, t)
        THEN [job EXCEPT !.next_run = anchored - timedelta("days", 1)]
        ELSE [job EXCEPT !.next_run = anchored]

\* a _schedule_next_run that counts the next run from the missed one
schedule_from_missed(job, t) ==
    IF job.unit \notin Units THEN Outcome(job, "AssertionError")
    ELSE LET period == timedelta(job.unit, job.interval)
             from   == IF job.next_run = None THEN t ELSE job.next_run
         IN  Outcome([job EXCEPT !.period = period, !.next_run = from + period],
                     "none")

\* Job._schedule_next_run with the clock at t
_schedule_next_run(job, t) ==
    IF job.unit \notin Units THEN Outcome(job, "AssertionError")
    ELSE LET period == timedelta(job.unit, job.interval)
             j1     == [job EXCEPT !.period = period, !.next_run = t + period]
         IN  IF job.at_time = NoTime THEN Outcome(j1, "none")
             ELSE IF job.unit # "days" THEN Outcome(j1, "AssertionError")
             ELSE Outcome(Anchored(j1, t), "none")

\* Job.do with the clock at t
do(job, job_func, t) ==
    _schedule_next_run([job EXCEPT !.job_func = job_func], t)

\* a should_run that holds one second early
should_run_early(job, t) == t + TicksPerSecond >= job.next_run

\* a run that swallows the error of the bound action
run_swallowing(job, t2) ==
    IF job.job_func = NoName THEN Outcome(job, "TypeError")
    ELSE IF job.job_func = "bad" THEN Outcome(job, "none")
    ELSE _schedule_next_run([job EXCEPT !.last_run = t2], t2)

\* Job.should_run with the clock at t; comparing with None raises
ShouldRunRaises(job) == job.next_run = None

should_run(job, t) == t >= job.next_run

\* Job.run: the bound action is called with the clock at t and ends with the
\* clock at t2
run(job, t2) ==
    IF job.job_func = NoName THEN Outcome(job, "TypeError")
    ELSE IF job.job_func = "bad" THEN Outcome(job, "ActionError")
    ELSE _schedule_next_run([job EXCEPT !.last_run = t2], t2)

(* ------------------------------ Scheduler ----------------------------- *)

\* the job objects a pass in progress still refers to
Held == Range(todo) \cup Range(loop.todo)

\* the job objects reachable from the collection or from a pass in progress
Live == Range(jobs) \cup Held

\* a heap without the objects nothing refers to any more
Collect(h, live) == [i \in JobIds |-> IF i \in live THEN h[i] ELSE NoJob]

\* sorted(): a stable sort of job identities by Job.__lt__
RECURSIVE Insert(_, _, _)
Insert(x, s, h) ==
    IF s = <<>> THEN <<x>>
    ELSE IF lt(h[x], h[Head(s)]) THEN <<x>> \o s
    ELSE <<Head(s)>> \o Insert(x, Tail(s), h)

RECURSIVE SortFrom(_, _, _)
SortFrom(s, acc, h) ==
    IF s = <<>> THEN acc ELSE SortFrom(Tail(s), Insert(Head(s), acc, h), h)

\* a sorted() that leaves the jobs in the order of the collection
unsorted(s, h) == s

sorted(s, h) == SortFrom(s, <<>>, h)

\* min(): the first least job by Job.__lt__
RECURSIVE MinFrom(_, _, _)
MinFrom(s, m, h) ==
    IF s = <<>> THEN m
    ELSE MinFrom(Tail(s), IF lt(h[Head(s)], h[m]) THEN Head(s) ELSE m, h)

\* a min() that returns the first job of the list
first(s, h) == Head(s)

min(s, h) == MinFrom(Tail(s), Head(s), h)

\* the generator of Scheduler.run_pending: the jobs whose should_run holds
runnable_jobs(s, h, t) == SelectSeq(s, LAMBDA j : should_run(h[j], t))

\* one invocation of a bound action as its caller sees it: the job, the job's
\* next_run and last_run before it, the clock when the action was called and
\* when it ended, and the error job.run() raised
Call(j, job, t, t2, e) ==
    [job |-> j, due |-> job.next_run, last |-> job.last_run,
     at |-> t, ret |-> t2, err |-> e]

\* what an operation leaves for its caller: which operation it was, the error
\* it raised and the value it returned
Reported(o, e, r) == op' = o /\ err' = e /\ result' = r

\* an operation that is no bulk run leaves no trace of the latest bulk run
NoBulk == delay' = 0 /\ selected' = <<>> /\ calls' = <<>> /\ left' = {}

\* Scheduler.__init__, with the clock at t
StartAt(t) ==
    /\ now = t
    /\ heap = [i \in JobIds |-> NoJob]
    /\ jobs = <<>>
    /\ mode = "idle"
    /\ todo = <<>>
    /\ idx = 0
    /\ delay = 0
    /\ selected = <<>>
    /\ calls = <<>>
    /\ op = <<"init", 0>>
    /\ err = "none"
    /\ result = <<>>
    /\ left = {}
    /\ cease = FALSE
    /\ loop = NoLoop

\* the clock moves by d while no operation is in progress; what the latest
\* operation reported to its caller is dropped
Tick(d) ==
    /\ mode = "idle"
    /\ now' = now + d
    /\ NoBulk
    /\ Reported(<<"tick", 0>>, "none", <<>>)
    /\ UNCHANGED <<heap, jobs, mode, todo, idx>>
    /\ UNCHANGED thread

\* Scheduler.every
every(interval) ==
    /\ mode = "idle"
    /\ \E id \in JobIds :
         /\ id \notin Live
         /\ \A k \in JobIds : k < id => k \in Live
         /\ heap' = [heap EXCEPT ![id] = Job(interval)]
         /\ jobs' = Append(jobs, id)
         /\ Reported(<<"every", id>>, "none", <<>>)
    /\ NoBulk
    /\ UNCHANGED <<now, mode, todo, idx>>
    /\ UNCHANGED thread

\* the configuration method `name`, with outcome out, called on job j of the
\* collection
Configure(name, j, out) ==
    /\ mode = "idle"
    /\ j \in Range(jobs)
    /\ heap' = [heap EXCEPT ![j] = out.job]
    /\ Reported(<<name, j>>, out.err, <<>>)
    /\ NoBulk
    /\ UNCHANGED <<now, jobs, mode, todo, idx>>
    /\ UNCHANGED thread

\* the configuration method `name` with argument arg, with outcome out, called
\* on job j of the collection
ConfigureWith(name, arg, j, out) ==
    /\ mode = "idle"
    /\ j \in Range(jobs)
    /\ heap' = [heap EXCEPT ![j] = out.job]
    /\ Reported(<<name, j, arg>>, out.err, <<>>)
    /\ NoBulk
    /\ UNCHANGED <<now, jobs, mode, todo, idx>>
    /\ UNCHANGED thread

\* a clear that deletes all jobs but the first
clear_keeping_first ==
    /\ mode = "idle"
    /\ jobs' = IF jobs = <<>> THEN jobs ELSE <<Head(jobs)>>
    /\ heap' = Collect(heap, Range(jobs') \cup Held)
    /\ Reported(<<"clear", Len(jobs)>>, "none", <<>>)
    /\ NoBulk
    /\ UNCHANGED <<now, mode, todo, idx>>
    /\ UNCHANGED thread

\* Scheduler.clear
clear ==
    /\ mode = "idle"
    /\ jobs' = <<>>
    /\ heap' = Collect(heap, Held)
    /\ Reported(<<"clear", Len(jobs)>>, "none", <<>>)
    /\ NoBulk
    /\ UNCHANGED <<now, mode, todo, idx>>
    /\ UNCHANGED thread

\* Scheduler.run_pending, up to the first job.run(): the selection and the sort
run_pending ==
    /\ mode = "idle"
    /\ calls' = <<>>
    /\ delay' = 0
    /\ IF \E i \in DOMAIN jobs : ShouldRunRaises(heap[jobs[i]])
       THEN /\ Reported(<<"run_pending", 0>>, "TypeError", <<>>)
            /\ selected' = <<>>
            /\ left' = {}
            /\ UNCHANGED <<mode, todo>>
       ELSE LET due == sorted(runnable_jobs(jobs, heap, now), heap)
            IN  /\ Reported(<<"run_pending", 0>>, "none", <<>>)
                /\ selected' = due
                /\ todo' = due
                /\ mode' = IF due = <<>> THEN "idle" ELSE "run_pending"
                /\ left' = IF due = <<>> THEN {} ELSE left
    /\ UNCHANGED <<now, heap, jobs, idx>>
    /\ UNCHANGED thread

\* Scheduler.run_pending: one job.run() of the loop; the action takes d ticks
RunPendingStep(d) ==
    /\ mode = "run_pending"
    /\ LET j   == Head(todo)
           t2  == IF heap[j].job_func = NoName THEN now ELSE now + d
           out == run(heap[j], t2)
       IN  /\ now' = t2
           /\ calls' = Append(calls, Call(j, heap[j], now, t2, out.err))
           /\ err' = out.err
           /\ IF out.err = "none" /\ Tail(todo) # <<>>
              THEN /\ todo' = Tail(todo)
                   /\ mode' = "run_pending"
                   /\ heap' = [heap EXCEPT ![j] = out.job]
                   /\ left' = left
              ELSE /\ todo' = <<>>
                   /\ mode' = "idle"
                   /\ heap' = Collect([heap EXCEPT ![j] = out.job],
                                      Range(jobs) \cup Range(loop.todo))
                   /\ left' = IF out.err = "none" THEN {} ELSE Range(Tail(todo))
    /\ UNCHANGED <<jobs, idx, delay, selected, op, result>>
    /\ UNCHANGED thread

\* a run_all that does not sleep between the jobs
run_all_without_sleep(delay_seconds) ==
    /\ mode = "idle"
    /\ calls' = <<>>
    /\ selected' = <<>>
    /\ delay' = 0
    /\ Reported(<<"run_all", delay_seconds>>, "none", <<>>)
    /\ IF jobs = <<>>
       THEN UNCHANGED <<mode, idx>>
       ELSE mode' = "run_all" /\ idx' = 1
    /\ left' = {}
    /\ UNCHANGED <<now, heap, jobs, todo>>
    /\ UNCHANGED thread

\* Scheduler.run_all, up to the first job.run()
run_all(delay_seconds) ==
    /\ mode = "idle"
    /\ calls' = <<>>
    /\ selected' = <<>>
    /\ delay' = delay_seconds
    /\ Reported(<<"run_all", delay_seconds>>, "none", <<>>)
    /\ IF jobs = <<>>
       THEN UNCHANGED <<mode, idx>>
       ELSE mode' = "run_all" /\ idx' = 1
    /\ left' = {}
    /\ UNCHANGED <<now, heap, jobs, todo>>
    /\ UNCHANGED thread

\* Scheduler.run_all: one job.run() and the sleep after it; the action and the
\* sleep's overrun take d ticks together
RunAllStep(d) ==
    /\ mode = "run_all"
    /\ LET j   == jobs[idx]
           t2  == IF heap[j].job_func = NoName THEN now ELSE now + d
           out == run(heap[j], t2)
       IN  /\ calls' = Append(calls, Call(j, heap[j], now, t2, out.err))
           /\ heap' = [heap EXCEPT ![j] = out.job]
           /\ err' = out.err
           /\ IF out.err # "none"
              THEN /\ now' = t2
                   /\ mode' = "idle"
                   /\ idx' = 0
              ELSE /\ now' = t2 + delay
                   /\ mode' = IF idx < Len(jobs) THEN "run_all" ELSE "idle"
                   /\ idx' = IF idx < Len(jobs) THEN idx + 1 ELSE 0
    /\ UNCHANGED <<jobs, todo, delay, selected, op, result, left>>
    /\ UNCHANGED thread

\* Scheduler.next_run
next_run ==
    /\ mode = "idle"
    /\ IF jobs = <<>> THEN Reported(<<"next_run", 0>>, "ValueError", <<>>)
       ELSE IF Len(jobs) > 1 /\ \E i \in DOMAIN jobs : heap[jobs[i]].next_run = None
       THEN Reported(<<"next_run", 0>>, "TypeError", <<>>)
       ELSE Reported(<<"next_run", 0>>, "none", <<heap[min(jobs, heap)].next_run>>)
    /\ NoBulk
    /\ UNCHANGED <<now, heap, jobs, mode, todo, idx>>
    /\ UNCHANGED thread

\* Scheduler.idle_seconds, in ticks
idle_seconds ==
    /\ mode = "idle"
    /\ IF jobs = <<>> THEN Reported(<<"idle_seconds", 0>>, "ValueError", <<>>)
       ELSE IF \E i \in DOMAIN jobs : heap[jobs[i]].next_run = None
       THEN Reported(<<"idle_seconds", 0>>, "TypeError", <<>>)
       ELSE Reported(<<"idle_seconds", 0>>, "none",
                     <<heap[min(jobs, heap)].next_run - now>>)
    /\ NoBulk
    /\ UNCHANGED <<now, heap, jobs, mode, todo, idx>>
    /\ UNCHANGED thread

(* -------------------------- run_continuously --------------------------- *)

\* the variables of the caller's own calls
caller == <<mode, todo, idx, delay, selected, calls, op, err, result, left>>

\* Scheduler.run_continuously(interval), interval in ticks: the event is
\* created, the thread is started, the event is returned
run_continuously(interval) ==
    /\ mode = "idle"
    /\ loop.pc = "none"
    /\ loop' = [NoLoop EXCEPT !.pc = "while", !.interval = interval]
    /\ cease' = FALSE
    /\ Reported(<<"run_continuously", interval>>, "none", <<>>)
    /\ NoBulk
    /\ UNCHANGED <<now, heap, jobs, mode, todo, idx>>

\* cease_continuous_run.set(), called by the holder of the event
set ==
    /\ loop.pc # "none"
    /\ cease' = TRUE
    /\ UNCHANGED <<now, heap, jobs, loop>>
    /\ UNCHANGED caller

\* a loop test that does not look at the event
LoopTestBlind ==
    /\ loop.pc = "while"
    /\ loop' = [loop EXCEPT !.pc = "run_pending"]
    /\ UNCHANGED <<now, heap, jobs, cease>>
    /\ UNCHANGED caller

\* ScheduleThread.run: the test of the while loop
LoopTest ==
    /\ loop.pc = "while"
    /\ loop' = [loop EXCEPT !.pc = IF cease THEN "done" ELSE "run_pending"]
    /\ UNCHANGED <<now, heap, jobs, cease>>
    /\ UNCHANGED caller

\* ScheduleThread.run: self.run_pending() up to the first job.run(), the
\* selection and the sort; an error ends the thread
LoopPending ==
    /\ loop.pc = "run_pending"
    /\ LET begun == loop.after + (IF cease THEN 1 ELSE 0)
       IN  IF \E i \in DOMAIN jobs : ShouldRunRaises(heap[jobs[i]])
           THEN loop' = [loop EXCEPT !.pc = "dead", !.err = "TypeError",
                                     !.selected = <<>>, !.calls = <<>>,
                                     !.after = begun]
           ELSE LET due == sorted(runnable_jobs(jobs, heap, now), heap)
                IN  loop' = [loop EXCEPT
                               !.pc = IF due = <<>> THEN "sleep" ELSE "run",
                               !.err = "none", !.selected = due, !.todo = due,
                               !.calls = <<>>, !.after = begun]
    /\ UNCHANGED <<now, heap, jobs, cease>>
    /\ UNCHANGED caller

\* the bound actions of the jobs the thread runs: those of Funcs, one that
\* calls clear() and one that calls every(1).seconds.do(good) while there is
\* room for a job object; both make their call first and then return
LoopFuncs == Funcs \cup {"clear", "every"}

\* the identity of the next job object
NewId == CHOOSE id \in JobIds \ Live : \A k \in JobIds \ Live : id <= k

\* whether the action f, called now, registers a job
Registers(f) == f = "every" /\ JobIds \ Live # {}

\* the collection after the action f, called now, has made its calls
JobsAfter(f) ==
    IF f = "clear" THEN <<>>
    ELSE IF Registers(f) THEN Append(jobs, NewId)
    ELSE jobs

\* the job objects after the action f, called now, has made its calls
HeapAfter(f) ==
    IF Registers(f)
    THEN [heap EXCEPT ![NewId] = do(plural(Job(1), "seconds").job, "good", now).job]
    ELSE heap

\* a pass that goes on with those of its jobs that are still in the collection
RestInCollection(td) == SelectSeq(Tail(td), LAMBDA j : j \in Range(jobs'))

\* the jobs of the sorted list that follow the one being run
Rest(td) == Tail(td)

\* ScheduleThread.run: one job.run() of the pass; the action takes d ticks
LoopRun(d) ==
    /\ loop.pc = "run"
    /\ LET j    == Head(loop.todo)
           f    == heap[j].job_func
           t2   == now + d
           out  == run(heap[j], t2)
           rest == IF out.err = "none" THEN Rest(loop.todo) ELSE <<>>
       IN  /\ now' = t2
           /\ jobs' = JobsAfter(f)
           /\ heap' = Collect([HeapAfter(f) EXCEPT ![j] = out.job],
                              Range(jobs') \cup Range(todo) \cup Range(rest))
           /\ loop' = [loop EXCEPT
                         !.calls = Append(@, Call(j, heap[j], now, t2, out.err)),
                         !.err = out.err,
                         !.todo = rest,
                         !.pc = IF out.err # "none" THEN "dead"
                                ELSE IF rest = <<>> THEN "sleep" ELSE "run"]
    /\ UNCHANGED cease
    /\ UNCHANGED caller

\* ScheduleThread.run: time.sleep(interval); the sorted list of the pass that
\* has returned is gone
LoopSleep ==
    /\ loop.pc = "sleep"
    /\ now' = now + loop.interval
    /\ loop' = [loop EXCEPT !.pc = "while", !.selected = <<>>, !.calls = <<>>]
    /\ UNCHANGED <<heap, jobs, cease>>
    /\ UNCHANGED caller

(* ------------------- the scheduler on the scale of seconds ------------ *)

\* how long a bound action (and a sleep's overrun) may take, in ticks
Durations == {0, TicksPerSecond}

\* whether the clock may still move by d
MayPass(d) == d = 0 \/ now + d <= MaxTime

\* the sleeps a run_all that has reached position i still has to make
Sleeps(i, d) == (Len(jobs) + 1 - i) * d

Init == StartAt(0)

Advance == \E d \in {1, TicksPerSecond} : MayPass(d) /\ Tick(d)

Every == \E n \in 1 .. MaxInterval : every(n)

Seconds == \E j \in JobIds : Configure("seconds", j, plural(heap[j], "seconds"))

Second == \E j \in JobIds : Configure("second", j, singular(heap[j], "seconds"))

Do == \E j \in JobIds, f \in Funcs : Configure("do", j, do(heap[j], f, now))

Clear == clear

RunPending == run_pending

PendingStep == \E d \in Durations : MayPass(d) /\ RunPendingStep(d)

RunAll == \E d \in {0, 1} : now + Sleeps(1, d) <= MaxTime /\ run_all(d)

AllStep == \E d \in Durations : MayPass(d + Sleeps(idx, delay)) /\ RunAllStep(d)

NextRun == next_run

IdleSeconds == idle_seconds

Next ==
    \/ Advance
    \/ Every
    \/ Seconds
    \/ Second
    \/ Do
    \/ Clear
    \/ RunPending
    \/ PendingStep
    \/ RunAll
    \/ AllStep
    \/ NextRun
    \/ IdleSeconds

Spec == Init /\ [][Next]_vars

(* ---------------------- one job on the calendar scale ------------------ *)

\* a time of day, in ticks since midnight
TimeOfDay(h, m, sec) == TimeTicks(<<h, m, sec>>)

\* the clock when the scheduler is created: day 0 at 09:00:00.5, 10:29:59.5,
\* 10:30:00 and 23:59:59.5 (half a second being TicksPerSecond \div 2 ticks)
StartTimes ==
    {TimeOfDay(9, 0, 0) + TicksPerSecond \div 2,
     TimeOfDay(10, 29, 59) + TicksPerSecond \div 2,
     TimeOfDay(10, 30, 0),
     TimeOfDay(23, 59, 59) + TicksPerSecond \div 2}

\* the strings passed to at(): "10:30", "00:00", "23:59"
TimeStrings ==
    {<<"1", "0", ":", "3", "0">>, <<"0", "0", ":", "0", "0">>,
     <<"2", "3", ":", "5", "9">>}

\* the steps of the clock: half a day, a day, a week
StepsCal == {12 * TicksPerHour, TicksPerDay, TicksPerWeek}

\* how long a bound action may take: no time, or half a day
DurationsCal == {0, 12 * TicksPerHour}

MayPassCal(d) == d = 0 \/ now + d <= MaxDays * TicksPerDay

InitCal == \E t \in StartTimes : StartAt(t)

AdvanceCal == \E d \in StepsCal : MayPassCal(d) /\ Tick(d)

EveryCal == \E n \in 1 .. MaxInterval : jobs = <<>> /\ every(n)

\* the caller configures a job in one chain, every(n).<unit>.at(s).do(f), and
\* calls no configuration method on it after do()
Unbound(j) == heap[j].job_func = NoName

UnitCal ==
    \E j \in JobIds, u \in Units :
        Unbound(j) /\ Configure(u, j, plural(heap[j], u))

AtCal ==
    \E j \in JobIds, a \in TimeStrings :
        Unbound(j) /\ Configure("at", j, at(heap[j], a))

DoCal == \E j \in JobIds : Unbound(j) /\ Configure("do", j, do(heap[j], "good", now))

ClearCal == clear

RunPendingCal == run_pending

PendingStepCal == \E d \in DurationsCal : MayPassCal(d) /\ RunPendingStep(d)

RunAllCal == run_all(0)

AllStepCal == \E d \in DurationsCal : MayPassCal(d) /\ RunAllStep(d)

NextCal ==
    \/ AdvanceCal
    \/ EveryCal
    \/ UnitCal
    \/ AtCal
    \/ DoCal
    \/ ClearCal
    \/ RunPendingCal
    \/ PendingStepCal
    \/ RunAllCal
    \/ AllStepCal

SpecCal == InitCal /\ [][NextCal]_vars

(* ------------------- the configuration of one job --------------------- *)

\* the property that selects a unit in its singular form
SingularName(unit) ==
    CASE unit = "seconds" -> "second"
      [] unit = "minutes" -> "minute"
      [] unit = "hours"   -> "hour"
      [] unit = "days"    -> "day"
      [] unit = "weeks"   -> "week"

\* the strings passed to at(): "10:30", "00:00", "23:59", "7:08", " 7 : 08 ",
\* "+7:08", "abc", "10:30:00", "25:00", "24:00", "10:60", "-1:30", "10:-1",
\* "1030", ":" and ""
AtStrings ==
    TimeStrings \cup
    {<<"7", ":", "0", "8">>,
     <<" ", "7", " ", ":", " ", "0", "8", " ">>,
     <<"+", "7", ":", "0", "8">>,
     <<"a", "b", "c">>,
     <<"1", "0", ":", "3", "0", ":", "0", "0">>,
     <<"2", "5", ":", "0", "0">>,
     <<"2", "4", ":", "0", "0">>,
     <<"1", "0", ":", "6", "0">>,
     <<"-", "1", ":", "3", "0">>,
     <<"1", "0", ":", "-", "1">>,
     <<"1", "0", "3", "0">>,
     <<":">>,
     <<>>}

\* the caller calls the configuration methods of one job in any order and any
\* number of times, and runs the job; the clock stands still meanwhile
EveryJob == \E n \in 1 .. MaxInterval : jobs = <<>> /\ every(n)

PluralJob == \E j \in JobIds, u \in Units : Configure(u, j, plural(heap[j], u))

SingularJob ==
    \E j \in JobIds, u \in Units :
        Configure(SingularName(u), j, singular(heap[j], u))

AtJob ==
    \E j \in JobIds, a \in AtStrings : ConfigureWith("at", a, j, at(heap[j], a))

DoJob == \E j \in JobIds, f \in Funcs : Configure("do", j, do(heap[j], f, now))

RunJob == run_all(0)

RunStepJob == RunAllStep(0)

NextJob ==
    \/ EveryJob
    \/ PluralJob
    \/ SingularJob
    \/ AtJob
    \/ DoJob
    \/ RunJob
    \/ RunStepJob

SpecJob == InitCal /\ [][NextJob]_vars

(* ------------------ the scheduler with its loop thread ----------------- *)

\* the clock stops at MaxTime while the loop may go on for ever; once the
\* event is set the thread ends by itself
MayPassLoop(d) == d = 0 \/ cease \/ now + d <= MaxTime

EveryLoop == \E n \in 1 .. MaxInterval : every(n)

SecondsLoop ==
    \E j \in JobIds :
        Unbound(j) /\ Configure("seconds", j, plural(heap[j], "seconds"))

DoLoop ==
    \E j \in JobIds, f \in LoopFuncs :
        Unbound(j) /\ Configure("do", j, do(heap[j], f, now))

RunContinuously == run_continuously(TicksPerSecond)

Set == set

Test == LoopTest

Pending == LoopPending

RunStep == \E d \in Durations : MayPassLoop(d) /\ LoopRun(d)

Sleep == MayPassLoop(loop.interval) /\ LoopSleep

\* the steps of the ScheduleThread
LoopStep == Test \/ Pending \/ RunStep \/ Sleep

NextLoop ==
    \/ EveryLoop
    \/ SecondsLoop
    \/ DoLoop
    \/ RunContinuously
    \/ Set
    \/ Test
    \/ Pending
    \/ RunStep
    \/ Sleep

SpecLoop == Init /\ [][NextLoop]_vars

\* the thread is scheduled again and again, and its sleep ends
SpecLoopFair == SpecLoop /\ WF_vars(LoopStep)

(* ------------------------------ properties ---------------------------- *)

\* the latest operation is the bulk run `name`
Bulk(name) == op[1] = name

\* the bulk run has returned to its caller without an error
Returned == mode = "idle" /\ err = "none"

\* the jobs whose actions the latest bulk run invoked, in order of invocation
Invoked == [i \in DOMAIN calls |-> calls[i].job]

\* C1: missed intervals are not caught up.  In a run_pending pass no job's
\* action is invoked twice, however many whole periods the clock has moved
\* past the job's next_run; a pass that returns has invoked the action of every
\* job it found due exactly once; after a job's run, next_run is the time of
\* that run plus one period, whatever the old next_run was; and with the clock
\* still at the time of that run the job is not due, so that a second
\* run_pending does not select it.
MissedIntervalsRunOnce ==
    Bulk("run_pending") =>
        /\ \A i, k \in DOMAIN calls : calls[i].job = calls[k].job => i = k
        /\ Returned => Invoked = selected
        /\ \A i \in DOMAIN calls :
             LET c == calls[i]  job == heap[c.job]
             IN  (c.err = "none" /\ job.at_time = NoTime) =>
                    /\ job.next_run = c.ret + timedelta(job.unit, job.interval)
                    /\ job.next_run > c.due
                    /\ (now = c.ret => ~should_run(job, now))

\* a pass has returned after running a job that was two or more whole periods
\* past its next_run, and the clock has not moved since that run
MissedIntervalsWitness ==
    /\ Bulk("run_pending")
    /\ Returned
    /\ \E i \in DOMAIN calls :
         LET c == calls[i]  job == heap[c.job]
         IN  /\ c.err = "none"
             /\ c.at >= c.due + 2 * timedelta(job.unit, job.interval)
             /\ now = c.ret

\* C2: a failed run counts as a completed run.  After a job's bound action has
\* raised during job.run(), the job's last_run is the time of that run and its
\* next_run is recomputed from it, so the job is not due again before one full
\* period has passed.
FailureIsCompletedRun ==
    \A i \in DOMAIN calls :
        LET c == calls[i]  job == heap[c.job]
        IN  (c.err = "ActionError" /\ c.due # None) =>
               /\ job.last_run = c.ret
               /\ job.next_run = c.ret + timedelta(job.unit, job.interval)
               /\ ~should_run(job, c.ret)

\* C3: the order of a run_pending pass.  Whenever the pass invokes the action
\* of a job, every job it selected with an earlier next_run has been invoked
\* before and has returned by then, wherever the two stand in the collection.
\* (The next_run a job had at the selection is the one its call records, or
\* the one it still has when the pass has not run it.)
DueAtSelection(j) ==
    IF \E i \in DOMAIN calls : calls[i].job = j
    THEN (CHOOSE c \in Range(calls) : c.job = j).due
    ELSE heap[j].next_run

PendingRunsInNextRunOrder ==
    Bulk("run_pending") =>
        \A k \in DOMAIN calls : \A j \in Range(selected) :
            DueAtSelection(j) < calls[k].due =>
                \E i \in 1 .. k - 1 :
                    calls[i].job = j /\ calls[i].ret <= calls[k].at

\* the position of job j in the collection
Position(j) == CHOOSE i \in DOMAIN jobs : jobs[i] = j

\* a pass has run two jobs, the one that was appended to the collection later
\* first, because its next_run was the earlier one
PendingOrderWitness ==
    /\ Bulk("run_pending")
    /\ Len(calls) = 2
    /\ calls[1].due < calls[2].due
    /\ Position(calls[1].job) > Position(calls[2].job)

\* the job whose next_run the latest operation has just computed with do()
JustBound(j) == op = <<"do", j>> /\ heap[j].next_run # None

\* the runs of the latest bulk operation after which next_run was recomputed
Rescheduled == {c \in Range(calls) : c.err = "none"}

\* C4: next_run is in the future when it is computed.  Right after do() and
\* right after a run, for every interval, unit and anchor, next_run is later
\* than the clock value it was computed at and the job is not due at that
\* clock value; and the jobs a run_pending pass selects are exactly those whose
\* next_run the clock has reached.
NextRunInFuture ==
    /\ \A j \in JobIds :
         JustBound(j) => heap[j].next_run > now /\ ~should_run(heap[j], now)
    /\ \A c \in Rescheduled :
         heap[c.job].next_run > c.ret /\ ~should_run(heap[c.job], c.ret)
    /\ (Bulk("run_pending") /\ err = "none" /\ calls = <<>>) =>
         Range(selected) = {j \in Range(jobs) : heap[j].next_run <= now}

\* an anchored job's next_run has just been computed for the first time, with
\* the anchor later today, and falls less than a period after the clock
NextRunInFutureWitness ==
    \E j \in JobIds :
        /\ JustBound(j)
        /\ heap[j].at_time # NoTime
        /\ heap[j].next_run < now + heap[j].period
        /\ heap[j].interval > 1

\* C5: daily anchoring at the first schedule.  Right after
\* every(1).days.at(A).do(f) with the clock at time of day t on day D, next_run
\* is day D at A when t is earlier than A and day D + 1 at A otherwise, on a
\* whole minute.
FirstAnchoredRun ==
    \A j \in JobIds :
        LET job == heap[j]
            A   == TimeTicks(job.at_time)
            D   == DateOf(now)
        IN  (/\ JustBound(j)
             /\ err = "none"
             /\ job.interval = 1
             /\ job.unit = "days"
             /\ job.at_time # NoTime
             /\ job.last_run = None) =>
               /\ job.next_run = (IF TimeOf(now) < A THEN D ELSE D + 1) * TicksPerDay + A
               /\ job.next_run % TicksPerMinute = 0

\* every(1).days.at("10:30").do(f) has just been called at 10:30:00 sharp, and
\* at half a second before 10:30
FirstAnchoredRunWitness ==
    \E j \in JobIds :
        /\ JustBound(j)
        /\ heap[j].interval = 1
        /\ heap[j].at_time = <<10, 30, 0>>
        /\ heap[j].last_run = None
        /\ TimeOf(now) = TimeOfDay(10, 30, 0)
        /\ heap[j].next_run = now + TicksPerDay

\* what next_run must be after a run whose bookkeeping was done with the clock
\* at r: r plus the period, or for an anchored job the anchor time on the date
\* of r plus interval days
NextRunAfter(job, r) ==
    IF job.at_time = NoTime THEN r + timedelta(job.unit, job.interval)
    ELSE (DateOf(r) + job.interval) * TicksPerDay + TimeTicks(job.at_time)

\* C6 as stated: after a run whose action returned, last_run is the clock time
\* R at which job.run() was invoked and next_run is computed from that R.
BookkeepingFromInvocation ==
    \A c \in Rescheduled :
        /\ heap[c.job].last_run = c.at
        /\ heap[c.job].next_run = NextRunAfter(heap[c.job], c.at)

\* C6, amended: after a run whose action returned, last_run is the clock time
\* at which the action returned, and next_run is that time plus interval x
\* unit-duration, or for an anchored days job the anchor time on that time's
\* date plus interval days: the one-day subtraction of the first schedule is
\* not applied once last_run is set.
BookkeepingFromReturn ==
    \A c \in Rescheduled :
        /\ heap[c.job].last_run = c.ret
        /\ heap[c.job].next_run = NextRunAfter(heap[c.job], c.ret)

\* an anchored job's action has taken time and has returned at a time of day
\* earlier than the anchor, on a job that had run before
BookkeepingWitness ==
    \E c \in Rescheduled :
        /\ heap[c.job].at_time # NoTime
        /\ heap[c.job].interval > 1
        /\ c.ret > c.at
        /\ c.last # None
        /\ TimeOf(c.ret) < TimeTicks(heap[c.job].at_time)

\* every job of the collection is configured and none is due
NoneDue == \A j \in Range(jobs) : heap[j].next_run # None /\ now < heap[j].next_run

\* C7: run_pending with no job due.  A run_pending called when every job of
\* the collection has a next_run later than the clock invokes no action and
\* leaves every job's fields and the collection as they were.
NothingDueNothingRuns ==
    [][(NoneDue /\ op' = <<"run_pending", 0>> /\ mode = "idle") =>
          /\ calls' = <<>>
          /\ selected' = <<>>
          /\ mode' = "idle"
          /\ err' = "none"
          /\ heap' = heap
          /\ jobs' = jobs]_vars

\* run_pending has returned after selecting nothing from a collection of two
\* configured jobs, one of which has run before
NothingDueWitness ==
    /\ op = <<"run_pending", 0>>
    /\ Len(jobs) = 2
    /\ NoneDue
    /\ selected = <<>>
    /\ \E j \in Range(jobs) : heap[j].last_run # None

\* C8: the failure of a bound action surfaces.  When a bulk run has called a
\* job whose action raises, that call is the last of the bulk run, and the
\* bulk run has ended by raising the action's error to its caller, at
\* whatever position of the batch the job stood.
ActionErrorSurfaces ==
    \A i \in DOMAIN calls :
        heap[calls[i].job].job_func = "bad" =>
            /\ calls[i].err = "ActionError"
            /\ i = Len(calls)
            /\ mode = "idle"
            /\ err = "ActionError"

\* a run_pending pass has raised the error of the second job it ran
ActionErrorWitness ==
    /\ Bulk("run_pending")
    /\ Len(calls) = 2
    /\ calls[2].err = "ActionError"
    /\ err = "ActionError"

\* C9: run_all runs every job.  A run_all(delay_seconds) that returns has
\* invoked the action of every job of the collection exactly once, in the
\* order of the collection, due or not; each invocation after the first came
\* at least delay_seconds after the previous action had ended; and every job
\* has last_run at the time of its run and next_run one period after it.
RunAllRunsEveryJob ==
    (Bulk("run_all") /\ Returned) =>
        /\ Invoked = jobs
        /\ \A i \in DOMAIN calls : i > 1 => calls[i].at >= calls[i - 1].ret + op[2]
        /\ \A c \in Range(calls) :
              /\ heap[c.job].last_run = c.ret
              /\ heap[c.job].next_run = NextRunAfter(heap[c.job], c.ret)

\* run_all(delay) with a delay has returned after running two jobs, the first
\* of them not due and with the later next_run
RunAllWitness ==
    /\ Bulk("run_all")
    /\ Returned
    /\ op[2] > 0
    /\ Len(calls) = 2
    /\ calls[1].at < calls[1].due
    /\ calls[1].due > calls[2].due

\* C10: the empty scheduler.  Right after clear() the collection is empty;
\* a run_pending or run_all on an empty collection invokes no action and
\* returns; next_run and idle_seconds on an empty collection, after clear() as
\* on a new scheduler, raise an error and return no value.
EmptyScheduler ==
    /\ op[1] = "clear" => jobs = <<>>
    /\ jobs = <<>> =>
          /\ (Bulk("run_pending") \/ Bulk("run_all")) => calls = <<>> /\ Returned
          /\ (op[1] = "next_run" \/ op[1] = "idle_seconds") =>
                err = "ValueError" /\ result = <<>>

\* clear() has just deleted two jobs
EmptySchedulerWitness == op = <<"clear", 2>> /\ jobs = <<>>

\* the hour and the minute that a time string denotes when it is two integer
\* fields separated by one colon with the hour in 0..23 and the minute in
\* 0..59 (an integer field being what int() reads: digits, with an optional
\* sign and blanks around them), and <<>> for every other string
HourMinute(s) ==
    CASE s = <<"1", "0", ":", "3", "0">> -> <<10, 30>>
      [] s = <<"0", "0", ":", "0", "0">> -> <<0, 0>>
      [] s = <<"2", "3", ":", "5", "9">> -> <<23, 59>>
      [] s = <<"7", ":", "0", "8">> -> <<7, 8>>
      [] s = <<" ", "7", " ", ":", " ", "0", "8", " ">> -> <<7, 8>>
      [] s = <<"+", "7", ":", "0", "8">> -> <<7, 8>>
      [] OTHER -> <<>>

\* C11: at(time_string).  A call of at() on a job whose unit is not days, or
\* with a string that is not two integer fields separated by one colon, or
\* with an hour outside 0..23 or a minute outside 0..59, raises an error and
\* leaves every field of the job as it was; any other call returns and changes
\* only at_time, to (hour, minute, 0), on the same job.
AtRejectsOrStores ==
    [][\A j \in JobIds : \A s \in AtStrings :
          op' = <<"at", j, s>> =>
             IF heap[j].unit # "days" \/ HourMinute(s) = <<>>
             THEN err' # "none" /\ heap' = heap
             ELSE /\ err' = "none"
                  /\ heap' = [heap EXCEPT ![j].at_time =
                                 <<HourMinute(s)[1], HourMinute(s)[2], 0>>]]_vars

\* at("10:30:00") has just been rejected on a days job that still has the
\* at_time of an earlier at("23:59")
AtRejectsWitness ==
    /\ op = <<"at", 1, <<"1", "0", ":", "3", "0", ":", "0", "0">>>>
    /\ err = "ValueError"
    /\ heap[1].unit = "days"
    /\ heap[1].at_time = <<23, 59, 0>>

\* C12: singular and plural unit forms.  On a job with interval 1 the
\* singular form of each of the five units returns and leaves the job with
\* that unit and every other field as it was, which is what the plural form
\* does on any job; on a job with another interval the singular form raises an
\* error and leaves the job, its unit included, as it was.
SingularIsPluralAtOne ==
    [][\A j \in JobIds : \A u \in Units :
          /\ op' = <<u, j>> =>
                err' = "none" /\ heap' = [heap EXCEPT ![j].unit = u]
          /\ op' = <<SingularName(u), j>> =>
                IF heap[j].interval = 1
                THEN err' = "none" /\ heap' = [heap EXCEPT ![j].unit = u]
                ELSE err' = "AssertionError" /\ heap' = heap]_vars

\* the singular form week has just been rejected on a job with interval 2 and
\* unit days
SingularRejectedWitness ==
    /\ op = <<"week", 1>>
    /\ err = "AssertionError"
    /\ heap[1].interval = 2
    /\ heap[1].unit = "days"

\* C13: the same-day correction for any interval.  Right after
\* every(n).days.at(A).do(f), for any n, called at a time of day earlier than
\* A, next_run is today's date at A.
FirstRunIsToday ==
    \A j \in JobIds :
        LET job == heap[j]
            A   == TimeTicks(job.at_time)
        IN  (/\ JustBound(j)
             /\ err = "none"
             /\ job.unit = "days"
             /\ job.at_time # NoTime
             /\ job.last_run = None
             /\ TimeOf(now) < A) =>
               job.next_run = DateOf(now) * TicksPerDay + A

\* every job of the collection has a bound action and a next_run
Configured ==
    \A j \in Range(jobs) : heap[j].job_func # NoName /\ heap[j].next_run # None

\* the least next_run of the collection
Earliest ==
    CHOOSE m \in {heap[j].next_run : j \in Range(jobs)} :
        \A j \in Range(jobs) : m <= heap[j].next_run

\* C14: the queries.  On a non-empty collection of configured jobs next_run
\* returns the least next_run of the collection and idle_seconds returns that
\* value minus the clock (here in ticks, which have the sign of the seconds);
\* idle_seconds is at most 0 exactly when some job is due, and exactly when a
\* run_pending called at that instant selects a job and goes on to invoke it.
QueriesReportEarliest ==
    /\ [](  (jobs # <<>> /\ Configured) =>
              /\ op[1] = "next_run" => err = "none" /\ result = <<Earliest>>
              /\ op[1] = "idle_seconds" =>
                    /\ err = "none"
                    /\ result = <<Earliest - now>>
                    /\ result[1] <= 0 <=>
                          \E j \in Range(jobs) : now >= heap[j].next_run)
    /\ [][(/\ jobs # <<>>
           /\ Configured
           /\ op[1] = "idle_seconds"
           /\ op' = <<"run_pending", 0>>) =>
              (result[1] <= 0 <=> (selected' # <<>> /\ mode' = "run_pending"))]_vars

\* idle_seconds has returned a negative value, that of the second job of the
\* collection, which is overdue while the first is not due
QueriesWitness ==
    /\ op[1] = "idle_seconds"
    /\ Len(jobs) = 2
    /\ Configured
    /\ heap[jobs[2]].next_run < now
    /\ heap[jobs[1]].next_run > now
    /\ result = <<heap[jobs[2]].next_run - now>>

\* C15: an anchor only on days.  In every state that the configuration
\* methods of a job, called in any order and any number of times, and its runs
\* can reach, a job whose at_time is set has the unit days.
AnchoredJobsAreDaily ==
    \A j \in Range(jobs) : heap[j].at_time # NoTime => heap[j].unit = "days"

\* the thread is in its loop
Looping == loop.pc \in {"while", "run_pending", "run", "sleep"}

\* C16: cooperative cancellation.  The thread starts no run_pending pass
\* after a loop test that found the event set: that test ends the thread, and
\* the thread stays ended; at most one pass begins while the event is set (one
\* whose test came before the set); and once the event is set the thread
\* eventually ends, its actions returning or raising in bounded time.
CooperativeCancellation ==
    /\ [][(loop.pc = "while" /\ cease /\ loop' # loop) => loop'.pc = "done"]_vars
    /\ [][loop.pc = "done" => loop' = loop]_vars
    /\ [](loop.after <= 1)
    /\ (cease ~> ~Looping)

\* the event was set between the loop test and the pass, the pass has begun
\* with the event set and has run a job, and the next test has ended the thread
CancellationWitness ==
    /\ cease
    /\ loop.after = 1
    /\ loop.pc = "done"
    /\ loop.err = "none"
    /\ \E j \in Range(jobs) : heap[j].last_run # None

\* C17: the loop goes on until the event is set.  While the event is not set
\* the thread is in its loop, whatever the passes did: after a pass in which
\* an action has raised, too, another pass follows.
LoopOutlivesFailure == (loop.err = "ActionError" /\ ~cease) => Looping

\* C18: members of the collection are configured.  Whenever the thread of
\* run_continuously is about to make the selection of a run_pending pass,
\* every job of the collection has a bound action and a next_run, also while
\* another thread is between every(interval) and do(), and after a
\* configuration call was rejected.
MembersAreConfigured == loop.pc = "run_pending" => Configured

\* the jobs whose actions the pass of the thread has invoked, in order
LoopInvoked == [i \in DOMAIN loop.calls |-> loop.calls[i].job]

\* C19: a pass runs its selection.  The selection of a pass is the set of
\* jobs that are in the collection and due at that moment, each once; the
\* jobs the pass has invoked are at any time the first of that selection, in
\* order; and a pass that returns has invoked exactly the selection, whatever
\* became due, was registered or was cleared while it ran.
PassRunsItsSelection ==
    /\ [][(loop.pc = "run_pending" /\ loop'.pc \in {"run", "sleep"}) =>
             /\ Range(loop'.selected) =
                    {j \in Range(jobs) : heap[j].next_run <= now}
             /\ Len(loop'.selected) = Cardinality(Range(loop'.selected))]_vars
    /\ [](/\ Len(loop.calls) <= Len(loop.selected)
          /\ LoopInvoked = SubSeq(loop.selected, 1, Len(loop.calls))
          /\ loop.pc = "sleep" => LoopInvoked = loop.selected)

\* a pass has returned after running the two jobs it had selected; the first
\* one's action had cleared the collection and the second one's action had
\* taken a second and registered a job, which is due by now and was not run
PassSelectionWitness ==
    /\ loop.pc = "sleep"
    /\ op[1] = "run_continuously"
    /\ loop.selected = <<1, 2>>
    /\ LoopInvoked = <<1, 2>>
    /\ jobs = <<1>>
    /\ heap[1].last_run = None
    /\ should_run(heap[1], now)

\* C20: a pass stops at the action that raises.  When an action raises in a
\* run_pending pass, the pass ends; the jobs selected after the failing one
\* are not invoked in it and keep all their fields, so that they are still
\* due; the jobs run before it keep theirs; and the pass that follows invokes
\* every job the failed pass had left.
PassStopsAtFailure ==
    [][/\ (mode = "run_pending" /\ err' = "ActionError") =>
             /\ mode' = "idle"
             /\ Len(calls') = Len(calls) + 1
             /\ \A j \in Range(Tail(todo)) :
                   heap'[j] = heap[j] /\ should_run(heap'[j], now')
             /\ \A i \in DOMAIN calls : heap'[calls[i].job] = heap[calls[i].job]
       /\ (mode = "run_pending" /\ mode' = "idle") =>
             left \subseteq {calls'[i].job : i \in DOMAIN calls'}]_vars

====
